---- MODULE Spec2Model ----
(***************************************************************************)
(* RenderContext2D of orbtk_tinyskia (src/orbtk_tinyskia/src/tinyskia/     *)
(* mod.rs): the retained-state 2D rendering context.  Every public method  *)
(* of the context is an operator from a context record to the context      *)
(* record after the call; the actions apply one call each to the           *)
(* variables, which are the fields of the struct.                          *)
(*                                                                         *)
(* Numbers: f64/f32 coordinates are modelled by integers (every input is   *)
(* drawn from a small grid, on which the `as f32` casts and `floor` are    *)
(* exact).  Colour channels are bytes; the global alpha and a colour's     *)
(* alpha are either fully transparent or fully opaque, where source-over   *)
(* blending is exact.  Angles are counted in eighths of a full turn.       *)
(* Option<T> is a sequence: <<>> is None, <<v>> is Some(v).                *)
(***************************************************************************)
EXTENDS Integers, Sequences, FiniteSets, TLC

VARIABLES background, clips_count, config, fill_paint, fonts, path_builder,
          path_rect, pixmap, saved_states, stroke_paint, transform,
          panicked, last_call, calls

vars == <<background, clips_count, config, fill_paint, fonts, path_builder,
          path_rect, pixmap, saved_states, stroke_paint, transform,
          panicked, last_call, calls>>

\* The fields of struct RenderContext2D (all but the call bookkeeping).
ctxvars == <<background, clips_count, config, fill_paint, fonts, path_builder,
             path_rect, pixmap, saved_states, stroke_paint, transform, panicked>>

-----------------------------------------------------------------------------
\* Bounds of the model: the number of public calls made in one session.
MaxStackCalls == 5
MaxPathCalls == 4
MaxDrawCalls == 4
MaxFillCalls == 5
MaxTextCalls == 4
MaxArcCalls == 2

\* A quarter turn, in angle units (eighths of a turn).
FRAC_PI_2 == 2
PI == 2 * FRAC_PI_2
TAU == 4 * FRAC_PI_2

Min(a, b) == IF a <= b THEN a ELSE b
Max(a, b) == IF a >= b THEN a ELSE b

None == << >>
Some(v) == << v >>
IsSome(o) == o # << >>
Unwrap(o) == o[1]

-----------------------------------------------------------------------------
\* Colours, brushes, paints.

\* utils Color: four 8-bit channels read by r(), g(), b(), a().
Color(r, g, b, a) == [r |-> r, g |-> g, b |-> b, a |-> a]
Transparent == Color(0, 0, 0, 0)
Red == Color(255, 0, 0, 255)
Blue == Color(0, 0, 255, 255)
Teal == Color(0, 128, 128, 255)

\* tiny_skia::Color::from_rgba8(r, g, b, a): the arguments are taken in the
\* order red, green, blue, alpha.
from_rgba8(r, g, b, a) == [red |-> r, green |-> g, blue |-> b, alpha |-> a]
WHITE == from_rgba8(255, 255, 255, 255)

\* color.set_alpha(color.alpha() * global_alpha), global_alpha in {0, 1}.
set_color_alpha(color, global_alpha) ==
    [color EXCEPT !.alpha = color.alpha * global_alpha]

SolidColor(c) ==
    [kind |-> "SolidColor", color |-> c, start |-> <<0, 0>>, end |-> <<0, 0>>,
     stops |-> << >>, repeat |-> FALSE]
\* Brush::Gradient with GradientKind::Linear(LinearGradientCoords::Ends).
LinearEnds(s, e, stops, repeat) ==
    [kind |-> "Gradient", color |-> Transparent, start |-> s, end |-> e,
     stops |-> stops, repeat |-> repeat]

\* Brush::default() and Color::default(): the transparent colour.
DefaultBrush == SolidColor(Transparent)
GradientBrush ==
    LinearEnds(<<0, 0>>, <<1, 0>>,
               <<[pos |-> 0, color |-> Red], [pos |-> 100, color |-> Blue]>>, FALSE)
SolidShader(c) ==
    [kind |-> "SolidColor", color |-> c, start |-> <<0, 0>>, end |-> <<0, 0>>,
     stops |-> << >>, spread |-> "Pad"]

\* build_unit_percent_gradient: every stop keeps its place on the axis and
\* its colour goes through the closure of paint_from_brush.
build_unit_percent_gradient(stops, global_alpha) ==
    [i \in 1..Len(stops) |->
        [pos |-> stops[i].pos,
         color |-> set_color_alpha(
             from_rgba8(stops[i].color.b, stops[i].color.g,
                        stops[i].color.r, stops[i].color.a), global_alpha)]]

\* tiny_skia::LinearGradient::new: None for a gradient the backend rejects
\* (the two ends coincide, or there is no stop).
LinearGradientNew(start, end, g_stops, spread) ==
    IF start = end \/ Len(g_stops) = 0
    THEN None
    ELSE Some([kind |-> "LinearGradient", color |-> from_rgba8(0, 0, 0, 0),
               start |-> start, end |-> end, stops |-> g_stops, spread |-> spread])

Rectangle(x, y, w, h) == [x |-> x, y |-> y, w |-> w, h |-> h]

paint_from_brush(brush, frame, global_alpha) ==
    LET shader ==
          IF brush.kind = "SolidColor"
          THEN SolidShader(set_color_alpha(
                   from_rgba8(brush.color.b, brush.color.g,
                              brush.color.r, brush.color.a), global_alpha))
          ELSE LET spread == IF brush.repeat THEN "Repeat" ELSE "Pad"
                   start == <<brush.start[1] + frame.x, brush.start[2] + frame.y>>
                   end == <<brush.end[1] + frame.x, brush.end[2] + frame.y>>
                   g_stops == build_unit_percent_gradient(brush.stops, global_alpha)
                   made == LinearGradientNew(start, end, g_stops, spread)
               IN  IF IsSome(made) THEN Unwrap(made) ELSE SolidShader(WHITE)
    IN  [shader |-> shader, anti_alias |-> TRUE]

-----------------------------------------------------------------------------
\* PathRect, the bounding tracker: an optional rectangle and a clip marker.

PathRectNew(r) == [rect |-> r, clip |-> FALSE]

get_rect(pr) == pr.rect

rebirth(pr) == PathRectNew(None)

\* The tracker widened to hold the corners (x0, y0) and (x1, y1).
record_extent(pr, x0, y0, x1, y1) ==
    LET lx == Min(x0, x1)
        ly == Min(y0, y1)
        hx == Max(x0, x1)
        hy == Max(y0, y1)
    IN  IF IsSome(pr.rect)
        THEN LET r == Unwrap(pr.rect)
                 nx == Min(r.x, lx)
                 ny == Min(r.y, ly)
             IN  [pr EXCEPT !.rect = Some(Rectangle(
                     nx, ny, Max(r.x + r.w, hx) - nx, Max(r.y + r.h, hy) - ny))]
        ELSE [pr EXCEPT !.rect = Some(Rectangle(lx, ly, hx - lx, hy - ly))]

record_move_to(pr, x, y) == record_extent(pr, x, y, x, y)
record_line_to(pr, x, y) == record_extent(pr, x, y, x, y)
record_rect(pr, x, y, w, h) == record_extent(pr, x, y, x + w, y + h)
record_quadratic_curve_to(pr, cpx, cpy, x, y) ==
    record_extent(record_extent(pr, cpx, cpy, cpx, cpy), x, y, x, y)
record_bezier_curve_to(pr, cp1x, cp1y, cp2x, cp2y, x, y) ==
    record_extent(record_extent(record_extent(pr, cp1x, cp1y, cp1x, cp1y),
                                cp2x, cp2y, cp2x, cp2y), x, y, x, y)
\* The full circumscribing square of the circle, whatever the angles.
record_arc(pr, x, y, radius, start_angle, end_angle) ==
    record_extent(pr, x - radius, y - radius, x + radius, y + radius)
record_clip(pr) == [pr EXCEPT !.clip = TRUE]
record_path_close(pr) == pr

-----------------------------------------------------------------------------
\* tiny_skia::PathBuilder: the sequence of segments pushed so far.  A point
\* on a circle is kept as (centre, radius, angle).

PathBuilderNew == << >>
pb_move_to(pb, x, y) == Append(pb, <<"M", x, y>>)
pb_line_to(pb, x, y) == Append(pb, <<"L", x, y>>)
pb_quad_to(pb, cpx, cpy, x, y) == Append(pb, <<"Q", cpx, cpy, x, y>>)
pb_cubic_to(pb, cp1x, cp1y, cp2x, cp2y, x, y) ==
    Append(pb, <<"C", cp1x, cp1y, cp2x, cp2y, x, y>>)
pb_close(pb) ==
    IF Len(pb) > 0 /\ pb[Len(pb)][1] # "Z" THEN Append(pb, <<"Z">>) ELSE pb
\* push_rect: a closed subpath, for a rectangle the backend accepts.
pb_push_rect(pb, x, y, w, h) ==
    IF w > 0 /\ h > 0
    THEN pb \o << <<"M", x, y>>, <<"L", x + w, y>>, <<"L", x + w, y + h>>,
                  <<"L", x, y + h>>, <<"Z">> >>
    ELSE pb
\* finish(): None for a builder with no segment, or with a lone move.
pb_finish(pb) == IF Len(pb) <= 1 THEN None ELSE Some(pb)

\* The segments arc() and arc_fragment() push.
pb_move_to_circle(pb, x, y, radius, angle) == Append(pb, <<"MA", x, y, radius, angle>>)
pb_line_to_circle(pb, x, y, radius, angle) == Append(pb, <<"LA", x, y, radius, angle>>)
pb_cubic_fragment(pb, x, y, radius, a0, a1) ==
    Append(pb, <<"CF", x, y, radius, a0, a1>>)
pb_cubic_quadrant(pb, x, y, radius, q) == Append(pb, <<"CQ", x, y, radius, q>>)

-----------------------------------------------------------------------------
\* RenderConfig and the saved State.

FontConfig(family, font_size) == [family |-> family, font_size |-> font_size]

\* RenderConfig::default().
DefaultConfig ==
    [fill_style |-> DefaultBrush, stroke_style |-> DefaultBrush, line_width |-> 1,
     alpha |-> 1, font_config |-> FontConfig("", 0)]

\* Transform::identity(), the only transform the context ever holds.
Identity == <<1, 0, 0, 1, 0, 0>>

State(self) ==
    [config |-> self.config, path_rect |-> self.path_rect,
     clips_count |-> self.clips_count, transform |-> self.transform]

-----------------------------------------------------------------------------
\* The methods of RenderContext2D that do not draw.

\* Rust's % on floats: the remainder has the sign of the dividend.
Rem(a, b) == IF a >= 0 THEN a % b ELSE -((-a) % b)

save(self) ==
    [self EXCEPT !.saved_states = Append(self.saved_states, State(self))]

\* restore() that leaves the clip count as it is.
restore_keeps_clips(self) ==
    IF Len(self.saved_states) > 0
    THEN LET st == self.saved_states[Len(self.saved_states)]
         IN  [self EXCEPT !.saved_states = SubSeq(self.saved_states, 1,
                                                  Len(self.saved_states) - 1),
                          !.config = st.config,
                          !.path_rect = st.path_rect,
                          !.transform = st.transform]
    ELSE self

\* restore() that falls back to the default configuration on an empty stack.
restore_or_reset(self) ==
    IF Len(self.saved_states) > 0
    THEN LET st == self.saved_states[Len(self.saved_states)]
         IN  [self EXCEPT !.saved_states = SubSeq(self.saved_states, 1,
                                                  Len(self.saved_states) - 1),
                          !.config = st.config,
                          !.path_rect = st.path_rect,
                          !.clips_count = st.clips_count,
                          !.transform = st.transform]
    ELSE [self EXCEPT !.config = DefaultConfig]

restore(self) ==
    IF Len(self.saved_states) > 0
    THEN LET st == self.saved_states[Len(self.saved_states)]
         IN  [self EXCEPT !.saved_states = SubSeq(self.saved_states, 1,
                                                  Len(self.saved_states) - 1),
                          !.config = st.config,
                          !.path_rect = st.path_rect,
                          !.clips_count = st.clips_count,
                          !.transform = st.transform]
    ELSE self

set_background(self, c) == [self EXCEPT !.background = c]
set_alpha(self, alpha) == [self EXCEPT !.config.alpha = alpha]
set_font_family(self, family) == [self EXCEPT !.config.font_config.family = family]
set_font_size(self, size) == [self EXCEPT !.config.font_config.font_size = size + 4]
set_line_width(self, line_width) == [self EXCEPT !.config.line_width = line_width]
set_fill_style(self, brush) == [self EXCEPT !.config.fill_style = brush]
set_stroke_style(self, brush) == [self EXCEPT !.config.stroke_style = brush]

\* begin_path() that forgets the bounding tracker.
begin_path_keeps_bound(self) == [self EXCEPT !.path_builder = PathBuilderNew]

begin_path(self) ==
    [self EXCEPT !.path_builder = PathBuilderNew,
                 !.path_rect = rebirth(self.path_rect)]

move_to(self, x, y) ==
    [self EXCEPT !.path_builder = pb_move_to(self.path_builder, x, y),
                 !.path_rect = record_move_to(self.path_rect, x, y)]

line_to(self, x, y) ==
    [self EXCEPT !.path_builder = pb_line_to(self.path_builder, x, y),
                 !.path_rect = record_line_to(self.path_rect, x, y)]

quadratic_curve_to(self, cpx, cpy, x, y) ==
    [self EXCEPT !.path_builder = pb_quad_to(self.path_builder, cpx, cpy, x, y),
                 !.path_rect = record_quadratic_curve_to(self.path_rect, cpx, cpy, x, y)]

bezier_curve_to(self, cp1x, cp1y, cp2x, cp2y, x, y) ==
    [self EXCEPT !.path_builder =
                     pb_cubic_to(self.path_builder, cp1x, cp1y, cp2x, cp2y, x, y),
                 !.path_rect =
                     record_bezier_curve_to(self.path_rect, cp1x, cp1y, cp2x, cp2y, x, y)]

rect(self, x, y, width, height) ==
    [self EXCEPT !.path_builder = pb_push_rect(self.path_builder, x, y, width, height),
                 !.path_rect = record_rect(self.path_rect, x, y, width, height)]

close_path(self) ==
    [self EXCEPT !.path_builder = pb_close(self.path_builder),
                 !.path_rect = record_path_close(self.path_rect)]

\* The clip mask is built and dropped: only the marker and the count stay.
clip(self) ==
    [self EXCEPT !.path_rect = record_clip(self.path_rect),
                 !.clips_count = self.clips_count + 1]

\* One cubic from angle start_angle to end_angle, pushed when the
\* discriminant d = 9/32 r^4 (1 - cos(end_angle - start_angle)) is positive.
arc_fragment(pb, x, y, radius, start_angle, end_angle) ==
    IF radius # 0 /\ (end_angle - start_angle) % TAU # 0
    THEN pb_cubic_fragment(pb, x, y, radius, start_angle, end_angle)
    ELSE pb

arc(self, x, y, radius, start_angle0, end_angle0) ==
    LET start_angle == IF start_angle0 < 0 THEN TAU - (-start_angle0) ELSE start_angle0
        end_angle == IF end_angle0 < 0 THEN TAU - (-end_angle0) ELSE end_angle0
        pb0 == self.path_builder
        pb1 == IF end_angle - start_angle < TAU
               THEN pb_line_to_circle(pb_move_to(pb0, x, y), x, y, radius, start_angle)
               ELSE pb_move_to_circle(pb0, x, y, radius, start_angle)
        pb2 == IF Rem(start_angle, FRAC_PI_2) > 0
               THEN arc_fragment(pb1, x, y, radius, start_angle,
                        start_angle + FRAC_PI_2 - Rem(start_angle, FRAC_PI_2))
               ELSE pb1
        pb3 == IF start_angle <= 0 /\ end_angle >= FRAC_PI_2
               THEN pb_cubic_quadrant(pb2, x, y, radius, 1) ELSE pb2
        pb4 == IF start_angle <= FRAC_PI_2 /\ end_angle >= PI
               THEN pb_cubic_quadrant(pb3, x, y, radius, 2) ELSE pb3
        pb5 == IF start_angle <= PI /\ end_angle >= PI + FRAC_PI_2
               THEN pb_cubic_quadrant(pb4, x, y, radius, 3) ELSE pb4
        pb6 == IF start_angle <= PI + FRAC_PI_2 /\ end_angle >= TAU
               THEN pb_cubic_quadrant(pb5, x, y, radius, 4) ELSE pb5
        pb7 == arc_fragment(pb6, x, y, radius,
                            end_angle - Rem(end_angle, FRAC_PI_2), end_angle)
        pb8 == IF end_angle - start_angle < TAU THEN pb_line_to(pb7, x, y) ELSE pb7
        short == pb_line_to(arc_fragment(pb1, x, y, radius, start_angle, end_angle), x, y)
    IN  [self EXCEPT !.path_rect = record_arc(self.path_rect, x, y, radius,
                                              start_angle0, end_angle0),
                     !.path_builder = IF end_angle - start_angle < FRAC_PI_2
                                      THEN short ELSE pb8]

-----------------------------------------------------------------------------
\* tiny_skia::Pixmap: width, height and the premultiplied RGBA bytes of every
\* pixel.  A pixel shaded by a gradient, or covered by a curved path, keeps
\* what the backend was asked to draw there in place of bytes.

Pixel(rgba) == [rgba |-> rgba, sample |-> << >>]
Sampled(what) == [rgba |-> << >>, sample |-> what]

\* `v as u32` of a float: negative values saturate to 0.
AsU32(v) == IF v < 0 THEN 0 ELSE v

\* Pixmap::new: None for a zero width or height, else transparent black.
PixmapNew(w, h) ==
    IF w = 0 \/ h = 0
    THEN None
    ELSE Some([width |-> w, height |-> h,
               px |-> [p \in (0..(w - 1)) \X (0..(h - 1)) |-> Pixel(<<0, 0, 0, 0>>)]])

\* The bytes of a colour as the pixmap stores them: red, green, blue, alpha.
Premultiply(c) ==
    IF c.alpha = 0 THEN <<0, 0, 0, 0>> ELSE <<c.red, c.green, c.blue, c.alpha>>

\* Pixmap::fill(color): every pixel is overwritten.
pixmap_fill(pm, c) == [pm EXCEPT !.px = [p \in DOMAIN pm.px |-> Pixel(Premultiply(c))]]

ShaderVisible(shader) ==
    IF shader.kind = "SolidColor"
    THEN shader.color.alpha > 0
    ELSE \E i \in 1..Len(shader.stops) : shader.stops[i].color.alpha > 0

\* Source-over blending of the shader at pixel p onto dst.
Shade(shader, p, dst) ==
    IF ~ShaderVisible(shader) THEN dst
    ELSE IF shader.kind = "SolidColor" THEN Pixel(Premultiply(shader.color))
    ELSE Sampled(<<shader.start, shader.end, shader.stops, shader.spread, p>>)

\* Pixmap::fill_rect(rect, paint, identity, no clip).
pixmap_fill_rect(pm, x, y, w, h, paint) ==
    [pm EXCEPT !.px = [p \in DOMAIN pm.px |->
        IF x <= p[1] /\ p[1] + 1 <= x + w /\ y <= p[2] /\ p[2] + 1 <= y + h
        THEN Shade(paint.shader, p, pm.px[p]) ELSE pm.px[p]]]

\* The subpaths of a path of moves, lines and closes: the vertices of each
\* and whether it was closed.  A line with no move before it starts at the
\* last move's point, (0, 0) when there was none.
RECURSIVE Flatten(_, _, _, _, _)
Flatten(pb, i, done, cur, last_move) ==
    LET flush(closed) ==
            IF Len(cur) > 0 THEN Append(done, [pts |-> cur, closed |-> closed]) ELSE done
    IN  IF i > Len(pb) THEN flush(FALSE)
        ELSE LET v == pb[i]
             IN  IF v[1] = "M"
                 THEN Flatten(pb, i + 1, flush(FALSE), << <<v[2], v[3]>> >>, <<v[2], v[3]>>)
                 ELSE IF v[1] = "L"
                 THEN Flatten(pb, i + 1, done,
                              Append(IF Len(cur) = 0 THEN <<last_move>> ELSE cur,
                                     <<v[2], v[3]>>), last_move)
                 ELSE Flatten(pb, i + 1, flush(TRUE), << >>, last_move)

Subpaths(pb) == Flatten(pb, 1, << >>, << >>, <<0, 0>>)

IsPolyline(pb) == \A i \in 1..Len(pb) : pb[i][1] \in {"M", "L", "Z"}

\* The edges of a subpath; the closing edge is there when `closing`.
Edges(sp, closing) ==
    {<<sp.pts[i], sp.pts[i + 1]>> : i \in 1..(Len(sp.pts) - 1)}
        \cup (IF closing /\ Len(sp.pts) > 1
              THEN {<<sp.pts[Len(sp.pts)], sp.pts[1]>>} ELSE {})

\* Does the ray from the centre of pixel p towards +x cross the edge e?
\* (Coordinates doubled: the centre is (2 p[1] + 1, 2 p[2] + 1).)
Crosses(e, p) ==
    LET px == 2 * p[1] + 1
        py == 2 * p[2] + 1
        x1 == 2 * e[1][1]
        y1 == 2 * e[1][2]
        x2 == 2 * e[2][1]
        y2 == 2 * e[2][2]
        side == (x1 - px) * (y2 - y1) + (py - y1) * (x2 - x1)
    IN  /\ (y1 > py) # (y2 > py)
        /\ IF y2 > y1 THEN side > 0 ELSE side < 0

\* Even-odd rule at the centre of pixel p (every subpath is closed to fill).
InsideEvenOdd(pb, p) ==
    LET sps == Subpaths(pb)
        n == Cardinality({<<k, e>> \in UNION {{k} \X Edges(sps[k], TRUE) : k \in 1..Len(sps)} :
                             Crosses(e, p)})
    IN  n % 2 = 1

\* Is the centre of pixel p within half the line width of the edge e?
NearEdge(e, p, width) ==
    LET px == 2 * p[1] + 1
        py == 2 * p[2] + 1
        ax == 2 * e[1][1]
        ay == 2 * e[1][2]
        bx == 2 * e[2][1]
        by == 2 * e[2][2]
        l2 == (bx - ax) * (bx - ax) + (by - ay) * (by - ay)
        t == (px - ax) * (bx - ax) + (py - ay) * (by - ay)
        da == (px - ax) * (px - ax) + (py - ay) * (py - ay)
        db == (px - bx) * (px - bx) + (py - by) * (py - by)
        cross == (px - ax) * (by - ay) - (py - ay) * (bx - ax)
    IN  IF t <= 0 THEN da <= width * width
        ELSE IF t >= l2 THEN db <= width * width
        ELSE cross * cross <= width * width * l2

OnStroke(pb, p, width) ==
    LET sps == Subpaths(pb)
    IN  \E k \in 1..Len(sps) : \E e \in Edges(sps[k], sps[k].closed) : NearEdge(e, p, width)

\* Pixmap::fill_path(path, paint, EvenOdd, identity, no clip).
pixmap_fill_path(pm, path, paint) ==
    [pm EXCEPT !.px = [p \in DOMAIN pm.px |->
        IF ~IsPolyline(path)
        THEN (IF ShaderVisible(paint.shader)
              THEN Sampled(<<"fill_path", path, paint.shader, pm.px[p]>>) ELSE pm.px[p])
        ELSE IF InsideEvenOdd(path, p) THEN Shade(paint.shader, p, pm.px[p])
        ELSE pm.px[p]]]

\* Pixmap::stroke_path(path, paint, Stroke { width, .. }, identity, no clip).
pixmap_stroke_path(pm, path, paint, width) ==
    [pm EXCEPT !.px = [p \in DOMAIN pm.px |->
        IF ~IsPolyline(path)
        THEN (IF ShaderVisible(paint.shader)
              THEN Sampled(<<"stroke_path", path, paint.shader, width, pm.px[p]>>)
              ELSE pm.px[p])
        ELSE IF OnStroke(path, p, width) THEN Shade(paint.shader, p, pm.px[p])
        ELSE pm.px[p]]]

\* Pixmap::draw_pixmap(x, y, src, default paint, identity, no clip): the
\* source is blended over the destination at the offset (x, y).
pixmap_draw_pixmap(pm, x, y, src) ==
    [pm EXCEPT !.px = [p \in DOMAIN pm.px |->
        LET q == <<p[1] - x, p[2] - y>>
        IN  IF q \in DOMAIN src.px /\ src.px[q].rgba[4] > 0 THEN src.px[q] ELSE pm.px[p]]]

-----------------------------------------------------------------------------
\* The methods of RenderContext2D that draw.

\* fill_rect() that lets a zero width or height through.
fill_rect_zero_passes(self, x, y, width, height) ==
    IF width >= 0 /\ height >= 0
    THEN LET pr == record_rect(self.path_rect, x, y, width, height)
             frame == Unwrap(get_rect(pr))
             paint == paint_from_brush(self.config.fill_style, frame, self.config.alpha)
         IN  [self EXCEPT !.path_rect = pr,
                          !.fill_paint = paint,
                          !.pixmap = pixmap_fill_rect(self.pixmap, x, y, width, height, paint)]
    ELSE self

fill_rect(self, x, y, width, height) ==
    IF width > 0 /\ height > 0
    THEN LET pr == record_rect(self.path_rect, x, y, width, height)
             frame == Unwrap(get_rect(pr))
             paint == paint_from_brush(self.config.fill_style, frame, self.config.alpha)
         IN  [self EXCEPT !.path_rect = pr,
                          !.fill_paint = paint,
                          !.pixmap = pixmap_fill_rect(self.pixmap, x, y, width, height, paint)]
    ELSE self

\* fill() that takes the path out of the builder when it rasterizes it.
fill_takes_path(self) ==
    IF IsSome(get_rect(self.path_rect))
    THEN LET frame == Unwrap(get_rect(self.path_rect))
             paint == paint_from_brush(self.config.fill_style, frame, self.config.alpha)
             path == pb_finish(self.path_builder)
         IN  [self EXCEPT !.fill_paint = paint,
                          !.path_builder = PathBuilderNew,
                          !.pixmap = IF IsSome(path)
                                     THEN pixmap_fill_path(self.pixmap, Unwrap(path), paint)
                                     ELSE self.pixmap]
    ELSE self

\* fill() that goes on with an empty frame when the bound is empty.
fill_without_bound(self) ==
    LET frame == IF IsSome(get_rect(self.path_rect))
                 THEN Unwrap(get_rect(self.path_rect)) ELSE Rectangle(0, 0, 0, 0)
        paint == paint_from_brush(self.config.fill_style, frame, self.config.alpha)
        path == pb_finish(self.path_builder)
    IN  [self EXCEPT !.fill_paint = paint,
                     !.pixmap = IF IsSome(path)
                                THEN pixmap_fill_path(self.pixmap, Unwrap(path), paint)
                                ELSE self.pixmap]

fill(self) ==
    IF IsSome(get_rect(self.path_rect))
    THEN LET frame == Unwrap(get_rect(self.path_rect))
             paint == paint_from_brush(self.config.fill_style, frame, self.config.alpha)
             path == pb_finish(self.path_builder)
         IN  [self EXCEPT !.fill_paint = paint,
                          !.pixmap = IF IsSome(path)
                                     THEN pixmap_fill_path(self.pixmap, Unwrap(path), paint)
                                     ELSE self.pixmap]
    ELSE self

stroke(self) ==
    IF IsSome(get_rect(self.path_rect))
    THEN LET frame == Unwrap(get_rect(self.path_rect))
             paint == paint_from_brush(self.config.stroke_style, frame, self.config.alpha)
             path == pb_finish(self.path_builder)
         IN  [self EXCEPT !.stroke_paint = paint,
                          !.pixmap = IF IsSome(path)
                                     THEN pixmap_stroke_path(self.pixmap, Unwrap(path), paint,
                                                             self.config.line_width)
                                     ELSE self.pixmap]
    ELSE self

stroke_rect(self, x, y, width, height) == stroke(rect(self, x, y, width, height))

resize(self, width, height) ==
    LET pm == PixmapNew(AsU32(width), AsU32(height))
    IN  IF IsSome(pm) THEN [self EXCEPT !.pixmap = Unwrap(pm)]
        ELSE [self EXCEPT !.panicked = TRUE]

\* The bytes of the image are copied into a pixmap of the image's size,
\* which is drawn at (x, y).
draw_image(self, image, x, y) ==
    LET pm == PixmapNew(AsU32(image.width), AsU32(image.height))
    IN  IF IsSome(pm)
        THEN [self EXCEPT !.pixmap = pixmap_draw_pixmap(self.pixmap, x, y,
                 [Unwrap(pm) EXCEPT !.px = [q \in DOMAIN image.px |-> Pixel(image.px[q])]])]
        ELSE [self EXCEPT !.panicked = TRUE]

draw_render_target(self, render_target, x, y) ==
    LET pm == PixmapNew(AsU32(render_target.width), AsU32(render_target.height))
    IN  IF IsSome(pm)
        THEN [self EXCEPT !.pixmap = pixmap_draw_pixmap(self.pixmap, x, y,
                 [Unwrap(pm) EXCEPT !.px =
                     [q \in DOMAIN render_target.px |-> Pixel(render_target.px[q])]])]
        ELSE [self EXCEPT !.panicked = TRUE]

\* RenderTarget::new(width, height), every pixel zero.
RenderTargetNew(w, h) ==
    [width |-> w, height |-> h,
     px |-> [q \in (0..(w - 1)) \X (0..(h - 1)) |-> <<0, 0, 0, 0>>]]

\* A pipeline is the bytes it writes to every pixel of its render target.
draw_pipeline(self, x, y, width, height, pipeline) ==
    LET rt == RenderTargetNew(AsU32(width), AsU32(height))
        drawn == [rt EXCEPT !.px = [q \in DOMAIN rt.px |-> pipeline]]
    IN  draw_render_target(self, drawn, x, y)

clear(self, brush) ==
    IF brush.kind = "SolidColor"
    THEN [self EXCEPT !.pixmap = pixmap_fill(self.pixmap,
              from_rgba8(brush.color.b, brush.color.g, brush.color.r, brush.color.a))]
    ELSE fill_rect(self, 0, 0, self.pixmap.width, self.pixmap.height)

start(self) ==
    [self EXCEPT !.pixmap = pixmap_fill(self.pixmap,
        from_rgba8(self.background.b, self.background.g,
                   self.background.r, self.background.a))]

\* data(): the bytes of the pixmap, pixel by pixel.
data(self) == [p \in DOMAIN self.pixmap.px |-> self.pixmap.px[p].rgba]

-----------------------------------------------------------------------------
\* Fonts and text.  A text is the sequence of its characters.  The font
\* registry is the set of its (family, font) entries, one per family.

\* Font::from_bytes: the font of a file that parses, Err for one that does not.
FontFromBytes(font_file) ==
    IF font_file.valid
    THEN Some([face |-> font_file.face, advance |-> font_file.advance])
    ELSE None

\* Font::measure_text(text, size): (width, height).
font_measure_text(font, text, size) == <<Len(text) * font.advance, size>>

\* Font::render_text: the glyphs are blended into the box of the text at
\* (x, y) with the paint.
font_render_text(font, size, paint, pm, x, y, text) ==
    pixmap_fill_rect(pm, x, y, font_measure_text(font, text, size)[1],
                     font_measure_text(font, text, size)[2], paint)

TextMetrics(width, height) == [width |-> width, height |-> height]

contains_key(registry, family) == \E e \in registry : e.family = family
FontOf(registry, family) == (CHOOSE e \in registry : e.family = family).font

\* register_font() that replaces the entry of a family already present.
register_font_overwrites(self, family, font_file) ==
    IF IsSome(FontFromBytes(font_file))
    THEN [self EXCEPT !.fonts = {e \in self.fonts : e.family # family}
                \cup {[family |-> family, font |-> Unwrap(FontFromBytes(font_file))]}]
    ELSE self

register_font(self, family, font_file) ==
    IF contains_key(self.fonts, family) THEN self
    ELSE IF IsSome(FontFromBytes(font_file))
    THEN [self EXCEPT !.fonts = self.fonts
                \cup {[family |-> family, font |-> Unwrap(FontFromBytes(font_file))]}]
    ELSE self

\* measure_text() that resolves the fill paint as fill_text() does.
measure_text_resolves_paint(self, text) ==
    [ctx |-> [self EXCEPT !.fill_paint =
                  paint_from_brush(self.config.fill_style, Rectangle(0, 0, 0, 0),
                                   self.config.alpha)],
     ret |-> IF text # << >> /\ contains_key(self.fonts, self.config.font_config.family)
             THEN LET m == font_measure_text(
                          FontOf(self.fonts, self.config.font_config.family),
                          text, self.config.font_config.font_size)
                  IN  TextMetrics(m[1], m[2])
             ELSE TextMetrics(0, 0)]

\* The context after the call and the TextMetrics returned.
measure_text(self, text) ==
    [ctx |-> self,
     ret |-> IF text # << >> /\ contains_key(self.fonts, self.config.font_config.family)
             THEN LET m == font_measure_text(
                          FontOf(self.fonts, self.config.font_config.family),
                          text, self.config.font_config.font_size)
                  IN  TextMetrics(m[1], m[2])
             ELSE TextMetrics(0, 0)]

measure(self, text, font_size, family) ==
    measure_text(set_font_size(set_font_family(self, family), font_size), text)

\* fill_text() that draws with whatever font is registered when the current
\* family has none.
fill_text_any_font(self, text, x, y) ==
    IF text = << >> THEN self
    ELSE LET tm == measure_text(self, text).ret
             paint == paint_from_brush(self.config.fill_style,
                          Rectangle(x, y, tm.width, tm.height), self.config.alpha)
         IN  [self EXCEPT
                !.fill_paint = paint,
                !.pixmap = IF self.fonts # {}
                           THEN font_render_text((CHOOSE e \in self.fonts : TRUE).font,
                                    self.config.font_config.font_size, paint,
                                    self.pixmap, x, y, text)
                           ELSE self.pixmap]

fill_text(self, text, x, y) ==
    IF text = << >> THEN self
    ELSE LET r == measure_text(self, text)
             tm == r.ret
             paint == paint_from_brush(r.ctx.config.fill_style,
                          Rectangle(x, y, tm.width, tm.height), r.ctx.config.alpha)
         IN  [r.ctx EXCEPT
                !.fill_paint = paint,
                !.pixmap = IF contains_key(r.ctx.fonts, r.ctx.config.font_config.family)
                           THEN font_render_text(
                                    FontOf(r.ctx.fonts, r.ctx.config.font_config.family),
                                    r.ctx.config.font_config.font_size, paint,
                                    r.ctx.pixmap, x, y, text)
                           ELSE r.ctx.pixmap]

-----------------------------------------------------------------------------
\* The state machine.

\* The size the context is created with.
InitSize == <<2, 2>>

\* RenderContext2D::new(width, height).
new(width, height) ==
    [background |-> Transparent,
     clips_count |-> 0,
     config |-> DefaultConfig,
     fill_paint |-> paint_from_brush(DefaultBrush, Rectangle(0, 0, 0, 0), 1),
     fonts |-> {},
     path_builder |-> PathBuilderNew,
     path_rect |-> PathRectNew(None),
     pixmap |-> Unwrap(PixmapNew(AsU32(width), AsU32(height))),
     saved_states |-> << >>,
     stroke_paint |-> paint_from_brush(DefaultBrush, Rectangle(0, 0, 0, 0), 1),
     transform |-> Identity,
     panicked |-> FALSE]

\* The context as a record of its fields.
Self ==
    [background |-> background, clips_count |-> clips_count, config |-> config,
     fill_paint |-> fill_paint, fonts |-> fonts, path_builder |-> path_builder,
     path_rect |-> path_rect, pixmap |-> pixmap, saved_states |-> saved_states,
     stroke_paint |-> stroke_paint, transform |-> transform, panicked |-> panicked]

SelfIs(c) ==
    /\ background = c.background
    /\ clips_count = c.clips_count
    /\ config = c.config
    /\ fill_paint = c.fill_paint
    /\ fonts = c.fonts
    /\ path_builder = c.path_builder
    /\ path_rect = c.path_rect
    /\ pixmap = c.pixmap
    /\ saved_states = c.saved_states
    /\ stroke_paint = c.stroke_paint
    /\ transform = c.transform
    /\ panicked = c.panicked

\* One public call: the context becomes c, the call is noted.  A panic
\* unwinds the caller: no call follows it.
Call(what, c) ==
    /\ ~panicked
    /\ background' = c.background
    /\ clips_count' = c.clips_count
    /\ config' = c.config
    /\ fill_paint' = c.fill_paint
    /\ fonts' = c.fonts
    /\ path_builder' = c.path_builder
    /\ path_rect' = c.path_rect
    /\ pixmap' = c.pixmap
    /\ saved_states' = c.saved_states
    /\ stroke_paint' = c.stroke_paint
    /\ transform' = c.transform
    /\ panicked' = c.panicked
    /\ last_call' = what
    /\ calls' = calls + 1

Init ==
    /\ SelfIs(new(InitSize[1], InitSize[2]))
    /\ last_call = <<"new">>
    /\ calls = 0

-----------------------------------------------------------------------------
\* The inputs of the calls.

BrushInputs == {SolidColor(Red), GradientBrush}
ClearInputs == {SolidColor(Blue), GradientBrush}
AlphaInputs == {0, 1}
LineWidthInputs == {2}
FamilyInputs == {"mono"}
FontSizeInputs == {8}
BackgroundInputs == {Teal}
PointInputs == {<<0, 0>>, <<2, 1>>}
\* (x, y, width, height): inside the buffer, across its edge, and with a
\* zero or negative width or height.
RectInputs == {<<0, 0, 1, 1>>, <<1, 0, 2, 2>>, <<0, 1, 0, 1>>, <<1, 1, 1, -1>>}
\* (x, y, radius, start_angle, end_angle)
ArcInputs == {<<1, 1, 1, 0, 1>>, <<1, 1, 1, 1, 5>>, <<1, 1, 1, 0, 8>>}
\* (cpx, cpy, x, y) and (cp1x, cp1y, cp2x, cp2y, x, y)
QuadInputs == {<<3, 0, 1, 1>>}
BezierInputs == {<<0, 3, 3, 0, 1, 1>>}
SizeInputs == {<<1, 2>>, <<0, 2>>, <<2, -1>>}
ImageInputs ==
    {[width |-> 1, height |-> 1, px |-> [q \in {<<0, 0>>} |-> <<9, 8, 7, 255>>]],
     [width |-> 0, height |-> 0, px |-> [q \in {} |-> <<0, 0, 0, 0>>]]}
PipelineInputs == {<<5, 5, 5, 255>>}

\* Arcs of the unit circle about (1, 1) over a grid of start and end angles,
\* and two arcs of radius 0.
MinAngle == -1
MaxStartAngle == 5
MaxEndAngle == 12
ArcGridInputs ==
    {<<1, 1, 1, s, e>> : s \in MinAngle..MaxStartAngle, e \in MinAngle..MaxEndAngle}
        \cup {<<1, 1, 0, 0, 1>>, <<1, 1, 0, 0, TAU>>}
TextInputs == {<< >>, <<"a", "b">>}
RegisterFamilyInputs == {"mono", "serif"}
\* Two files that parse and one that does not.
FontFileInputs ==
    {[valid |-> TRUE, face |-> "A", advance |-> 1],
     [valid |-> TRUE, face |-> "B", advance |-> 2],
     [valid |-> FALSE, face |-> "", advance |-> 0]}
MeasureSizeInputs == {1}

-----------------------------------------------------------------------------
\* The actions: one public call each.

Save == Call(<<"save">>, save(Self))
\* The call is noted with the depth of the stack it found.
Restore == Call(<<"restore", Len(saved_states)>>, restore(Self))
SetBackground == \E c \in BackgroundInputs : Call(<<"set_background">>, set_background(Self, c))
SetAlpha == \E a \in AlphaInputs : Call(<<"set_alpha", a>>, set_alpha(Self, a))
SetFontFamily ==
    \E f \in FamilyInputs : Call(<<"set_font_family", f>>, set_font_family(Self, f))
SetFontSize == \E n \in FontSizeInputs : Call(<<"set_font_size", n>>, set_font_size(Self, n))
SetLineWidth ==
    \E w \in LineWidthInputs : Call(<<"set_line_width", w>>, set_line_width(Self, w))
SetFillStyle ==
    \E b \in BrushInputs : Call(<<"set_fill_style", b>>, set_fill_style(Self, b))
SetStrokeStyle ==
    \E b \in BrushInputs : Call(<<"set_stroke_style", b>>, set_stroke_style(Self, b))
BeginPath == Call(<<"begin_path">>, begin_path(Self))
MoveTo == \E p \in PointInputs : Call(<<"move_to", p[1], p[2]>>, move_to(Self, p[1], p[2]))
LineTo == \E p \in PointInputs : Call(<<"line_to", p[1], p[2]>>, line_to(Self, p[1], p[2]))
QuadraticCurveTo ==
    \E q \in QuadInputs :
        Call(<<"quadratic_curve_to", q[1], q[2], q[3], q[4]>>,
             quadratic_curve_to(Self, q[1], q[2], q[3], q[4]))
BezierCurveTo ==
    \E b \in BezierInputs :
        Call(<<"bezier_curve_to", b[1], b[2], b[3], b[4], b[5], b[6]>>,
             bezier_curve_to(Self, b[1], b[2], b[3], b[4], b[5], b[6]))
Rect ==
    \E r \in {q \in RectInputs : q[3] > 0 /\ q[4] > 0} :
        Call(<<"rect", r[1], r[2], r[3], r[4]>>, rect(Self, r[1], r[2], r[3], r[4]))
Arc ==
    \E a \in ArcInputs :
        Call(<<"arc", a[1], a[2], a[3], a[4], a[5]>>, arc(Self, a[1], a[2], a[3], a[4], a[5]))
ArcOnGrid ==
    \E a \in ArcGridInputs :
        Call(<<"arc", a[1], a[2], a[3], a[4], a[5]>>, arc(Self, a[1], a[2], a[3], a[4], a[5]))
ClosePath == Call(<<"close_path">>, close_path(Self))
Clip == Call(<<"clip">>, clip(Self))
FillRect ==
    \E r \in RectInputs :
        Call(<<"fill_rect", r[1], r[2], r[3], r[4]>>, fill_rect(Self, r[1], r[2], r[3], r[4]))
StrokeRect ==
    \E r \in RectInputs :
        Call(<<"stroke_rect", r[1], r[2], r[3], r[4]>>,
             stroke_rect(Self, r[1], r[2], r[3], r[4]))
Fill == Call(<<"fill">>, fill(Self))
Stroke == Call(<<"stroke">>, stroke(Self))
Resize == \E s \in SizeInputs : Call(<<"resize", s[1], s[2]>>, resize(Self, s[1], s[2]))
DrawImage == \E i \in ImageInputs : Call(<<"draw_image", i.width>>, draw_image(Self, i, 1, 0))
DrawRenderTarget ==
    \E i \in ImageInputs :
        Call(<<"draw_render_target", i.width>>, draw_render_target(Self, i, 0, 1))
DrawPipeline ==
    \E s \in SizeInputs : \E c \in PipelineInputs :
        Call(<<"draw_pipeline", s[1], s[2]>>, draw_pipeline(Self, 0, 0, s[1], s[2], c))
Clear == \E b \in ClearInputs : Call(<<"clear", b>>, clear(Self, b))
Start == Call(<<"start">>, start(Self))

RegisterFont ==
    \E f \in RegisterFamilyInputs : \E file \in FontFileInputs :
        Call(<<"register_font", f, file>>, register_font(Self, f, file))
\* The calls that return TextMetrics are noted with what they returned.
MeasureText ==
    \E t \in TextInputs :
        Call(<<"measure_text", t, measure_text(Self, t).ret>>, measure_text(Self, t).ctx)
Measure ==
    \E t \in TextInputs : \E n \in MeasureSizeInputs : \E f \in FamilyInputs :
        Call(<<"measure", t, measure(Self, t, n, f).ret>>, measure(Self, t, n, f).ctx)
FillText == \E t \in TextInputs : Call(<<"fill_text", t, 0, 1>>, fill_text(Self, t, 0, 1))

\* A session makes a bounded number of calls.
StackBudget == calls < MaxStackCalls
PathBudget == calls < MaxPathCalls
DrawBudget == calls < MaxDrawCalls
FillBudget == calls < MaxFillCalls
TextBudget == calls < MaxTextCalls
ArcBudget == calls < MaxArcCalls

\* The state stack under setters, path calls and clip().
NextStack ==
    \/ StackBudget /\ Save
    \/ StackBudget /\ Restore
    \/ StackBudget /\ SetAlpha
    \/ StackBudget /\ SetFontFamily
    \/ StackBudget /\ SetFontSize
    \/ StackBudget /\ SetLineWidth
    \/ StackBudget /\ SetFillStyle
    \/ StackBudget /\ SetStrokeStyle
    \/ StackBudget /\ LineTo
    \/ StackBudget /\ BeginPath
    \/ StackBudget /\ Clip

SpecStack == Init /\ [][NextStack]_vars

\* The path and its bounding tracker.
NextPath ==
    \/ PathBudget /\ BeginPath
    \/ PathBudget /\ MoveTo
    \/ PathBudget /\ LineTo
    \/ PathBudget /\ QuadraticCurveTo
    \/ PathBudget /\ BezierCurveTo
    \/ PathBudget /\ Rect
    \/ PathBudget /\ Arc
    \/ PathBudget /\ ClosePath
    \/ PathBudget /\ Clip
    \/ PathBudget /\ Save
    \/ PathBudget /\ Restore
    \/ PathBudget /\ FillRect

SpecPath == Init /\ [][NextPath]_vars

\* fill() and stroke() of a path, with the state stack.
NextFill ==
    \/ FillBudget /\ SetFillStyle
    \/ FillBudget /\ SetStrokeStyle
    \/ FillBudget /\ SetAlpha
    \/ FillBudget /\ Save
    \/ FillBudget /\ Restore
    \/ FillBudget /\ BeginPath
    \/ FillBudget /\ MoveTo
    \/ FillBudget /\ LineTo
    \/ FillBudget /\ Rect
    \/ FillBudget /\ Fill
    \/ FillBudget /\ Stroke

SpecFill == Init /\ [][NextFill]_vars

\* arc() over the grid of angles, on an empty path or after one other call.
NextArc ==
    \/ ArcBudget /\ BeginPath
    \/ ArcBudget /\ MoveTo
    \/ ArcBudget /\ LineTo
    \/ ArcBudget /\ ClosePath
    \/ ArcBudget /\ ArcOnGrid

SpecArc == Init /\ [][NextArc]_vars

\* Fonts, text measuring and text drawing.
NextText ==
    \/ TextBudget /\ RegisterFont
    \/ TextBudget /\ SetFontFamily
    \/ TextBudget /\ SetFontSize
    \/ TextBudget /\ SetFillStyle
    \/ TextBudget /\ MeasureText
    \/ TextBudget /\ Measure
    \/ TextBudget /\ FillText

SpecText == Init /\ [][NextText]_vars

\* Drawing into the pixel buffer.
Next ==
    \/ DrawBudget /\ SetFillStyle
    \/ DrawBudget /\ SetStrokeStyle
    \/ DrawBudget /\ SetAlpha
    \/ DrawBudget /\ SetLineWidth
    \/ DrawBudget /\ SetBackground
    \/ DrawBudget /\ BeginPath
    \/ DrawBudget /\ MoveTo
    \/ DrawBudget /\ LineTo
    \/ DrawBudget /\ Rect
    \/ DrawBudget /\ ClosePath
    \/ DrawBudget /\ FillRect
    \/ DrawBudget /\ StrokeRect
    \/ DrawBudget /\ Fill
    \/ DrawBudget /\ Stroke
    \/ DrawBudget /\ Resize
    \/ DrawBudget /\ DrawImage
    \/ DrawBudget /\ DrawRenderTarget
    \/ DrawBudget /\ DrawPipeline
    \/ DrawBudget /\ Clear
    \/ DrawBudget /\ Start

Spec == Init /\ [][Next]_vars

-----------------------------------------------------------------------------
\* The state stack.

\* A step that is one public call of the named method.
Called(name) == calls' = calls + 1 /\ last_call'[1] = name

\* What save() snapshots, in the current state.
Snapshot ==
    [config |-> config, path_rect |-> path_rect, clips_count |-> clips_count,
     transform |-> transform]

\* C1: save() and restore() are a true LIFO under every interleaving of
\* setters, path calls and clip(): save() pushes the configuration, path
\* bound, clip count and transform of the moment on top of the stack,
\* restore() on a non-empty stack sets exactly these four to the top entry
\* and pops it, and no other call touches the stack; so the k-th restore()
\* after n save() brings back the values of the matching save(), and the
\* depth is back where it was after the n-th.
C1_SaveRestoreLifo ==
    [][/\ Called("save") => saved_states' = Append(saved_states, Snapshot)
       /\ Called("restore") /\ Len(saved_states) > 0 =>
            /\ Snapshot' = saved_states[Len(saved_states)]
            /\ saved_states' = SubSeq(saved_states, 1, Len(saved_states) - 1)
       /\ calls' = calls + 1 /\ last_call'[1] \notin {"save", "restore"} =>
            saved_states' = saved_states]_vars

\* A restore() out of two nested saves brought back the inner snapshot: its
\* configuration differs from the outer one still on the stack, and the path
\* bound is empty again although the path got a segment after the inner save.
C1_Witness ==
    /\ last_call = <<"restore", 2>>
    /\ Len(saved_states) = 1
    /\ config # saved_states[1].config
    /\ path_builder # << >>
    /\ get_rect(path_rect) = None

\* C2: restore() on an empty state stack changes nothing: configuration,
\* path bound, clip count, transform, path geometry, pixel buffer and the
\* stack stay as they were, and the call does not panic.
C2_RestoreEmptyNoop ==
    [][Called("restore") /\ saved_states = << >> => UNCHANGED ctxvars]_vars

\* restore() was called on an empty stack in a context whose configuration,
\* path and clip count are no longer the initial ones.
C2_Witness ==
    /\ last_call = <<"restore", 0>>
    /\ saved_states = << >>
    /\ config # DefaultConfig
    /\ IsSome(path_rect.rect)
    /\ clips_count > 0

-----------------------------------------------------------------------------
\* The bounding tracker.

SetMin(S) == CHOOSE m \in S : \A v \in S : m <= v
SetMax(S) == CHOOSE m \in S : \A v \in S : m >= v

\* The points a segment of the path was built from (for a segment of an
\* arc: the corners of the circle's circumscribing square).
SegmentPoints(v) ==
    IF v[1] \in {"M", "L"} THEN {<<v[2], v[3]>>}
    ELSE IF v[1] = "Q" THEN {<<v[2], v[3]>>, <<v[4], v[5]>>}
    ELSE IF v[1] = "C" THEN {<<v[2], v[3]>>, <<v[4], v[5]>>, <<v[6], v[7]>>}
    ELSE IF v[1] = "Z" THEN {}
    ELSE {<<v[2] - v[4], v[3] - v[4]>>, <<v[2] + v[4], v[3] + v[4]>>}

\* The exact bounding box of a set of points, None for no point.
BoundingBox(pts) ==
    IF pts = {} THEN None
    ELSE LET xs == {q[1] : q \in pts}
             ys == {q[2] : q \in pts}
         IN  Some(Rectangle(SetMin(xs), SetMin(ys),
                            SetMax(xs) - SetMin(xs), SetMax(ys) - SetMin(ys)))

\* C3: in every reachable state the bounding tracker is the exact bounding
\* box of the points passed to the path-construction calls since the last
\* begin_path(), and empty when there were none.
C3_TrackerIsPathBound ==
    get_rect(path_rect) =
        BoundingBox(UNION {SegmentPoints(path_builder[i]) : i \in 1..Len(path_builder)})

\* Does the rectangle r hold the box with corners (x0, y0), (x1, y1)?
Holds(r, x0, y0, x1, y1) ==
    /\ r.x <= Min(x0, x1) /\ Max(x0, x1) <= r.x + r.w
    /\ r.y <= Min(y0, y1) /\ Max(y0, y1) <= r.y + r.h

\* The extent of a line_to, rect or arc call, from its arguments.
HoldsCall(r, c) ==
    IF c[1] = "line_to" THEN Holds(r, c[2], c[3], c[2], c[3])
    ELSE IF c[1] = "rect" THEN Holds(r, c[2], c[3], c[2] + c[4], c[3] + c[5])
    ELSE Holds(r, c[2] - c[4], c[3] - c[4], c[2] + c[4], c[3] + c[4])

\* C7: begin_path() empties the path geometry and the bounding tracker
\* (get_rect() is None right after it) and leaves the state stack, the
\* configuration, the clip count, the transform and the pixel buffer alone;
\* the first line_to, rect or arc after it makes the tracker a rectangle
\* that holds the extent of that call.
C7_BeginPathResets ==
    [][/\ Called("begin_path") =>
            /\ path_builder' = PathBuilderNew
            /\ get_rect(path_rect') = None
            /\ UNCHANGED <<saved_states, config, clips_count, transform, pixmap>>
       /\ calls' = calls + 1 /\ last_call[1] = "begin_path"
          /\ last_call'[1] \in {"line_to", "rect", "arc"} =>
            /\ IsSome(get_rect(path_rect'))
            /\ HoldsCall(Unwrap(get_rect(path_rect')), last_call')]_vars

\* An arc was the fourth call, right after a begin_path() that dropped the
\* clip marker set by clip() and saved by save() before it.
C7_Witness ==
    /\ calls = 4
    /\ last_call[1] = "arc"
    /\ clips_count = 1
    /\ ~path_rect.clip
    /\ Len(saved_states) = 1
    /\ saved_states[1].path_rect.clip
    /\ get_rect(path_rect) = Some(Rectangle(0, 0, 2, 2))

-----------------------------------------------------------------------------
\* Drawing.

\* C4: fill() and stroke() are no-ops when the bound of the current path is
\* empty: the pixel buffer, the cached paints and the rest of the context
\* are unchanged; when the bound is not empty the paint they cache is the
\* brush resolved against exactly that bound, with the global alpha.
C4_FillStrokeEmptyBound ==
    [][/\ calls' = calls + 1 /\ last_call'[1] \in {"fill", "stroke"}
          /\ get_rect(path_rect) = None => UNCHANGED ctxvars
       /\ Called("fill") /\ IsSome(get_rect(path_rect)) =>
            fill_paint' = paint_from_brush(config.fill_style,
                                           Unwrap(get_rect(path_rect)), config.alpha)
       /\ Called("stroke") /\ IsSome(get_rect(path_rect)) =>
            stroke_paint' = paint_from_brush(config.stroke_style,
                                             Unwrap(get_rect(path_rect)), config.alpha)]_vars

\* fill() met an empty bound with a rectangle in the path and an opaque
\* fill style (the bound was emptied by restore()).
C4_Witness ==
    /\ last_call = <<"fill">>
    /\ get_rect(path_rect) = None
    /\ IsSome(pb_finish(path_builder))
    /\ config.fill_style = SolidColor(Red)
    /\ config.alpha = 1

\* C5: fill_rect(x, y, w, h) with w <= 0 or h <= 0 changes nothing: not the
\* pixel buffer, the bounding tracker, the cached fill paint nor any other
\* field of the context.
C5_FillRectDegenerateNoop ==
    [][Called("fill_rect") /\ (last_call'[4] <= 0 \/ last_call'[5] <= 0) =>
            UNCHANGED ctxvars]_vars

\* fill_rect was called with a zero width, under an opaque fill style that
\* the cached fill paint does not hold yet.
C5_Witness ==
    /\ last_call[1] = "fill_rect"
    /\ last_call[4] = 0
    /\ config.fill_style = SolidColor(Red)
    /\ config.alpha = 1
    /\ fill_paint # paint_from_brush(config.fill_style, Rectangle(0, 0, 0, 0), 1)

\* C6: stroke_rect(x, y, w, h) with w <= 0 or h <= 0 leaves the pixel
\* buffer, the path geometry, the bounding tracker and the cached stroke
\* paint unchanged.
C6_StrokeRectDegenerateNoop ==
    [][Called("stroke_rect") /\ (last_call'[4] <= 0 \/ last_call'[5] <= 0) =>
            UNCHANGED <<pixmap, path_builder, path_rect, stroke_paint>>]_vars

\* C6, the pixel buffer alone.
C6_StrokeRectDegenerateKeepsPixels ==
    [][Called("stroke_rect") /\ (last_call'[4] <= 0 \/ last_call'[5] <= 0) =>
            UNCHANGED pixmap]_vars

\* C8: once the context is constructed, no public call panics, whatever its
\* arguments.
C8_NoCallPanics == ~panicked

\* Is pixel p inside the rectangle of the fill_rect call c?
InCallRect(p, c) ==
    c[2] <= p[1] /\ p[1] + 1 <= c[2] + c[4] /\ c[3] <= p[2] /\ p[2] + 1 <= c[3] + c[5]

\* C9: after fill_rect of a rectangle inside the buffer, with a solid opaque
\* fill colour C and global alpha 1, data() holds C's red, green, blue and
\* alpha bytes, in that order, at every pixel inside the rectangle, and the
\* pixels outside it are unchanged.
C9_FillRectWritesColor ==
    [][/\ Called("fill_rect") /\ last_call'[4] > 0 /\ last_call'[5] > 0
       /\ last_call'[2] >= 0 /\ last_call'[2] + last_call'[4] <= pixmap.width
       /\ last_call'[3] >= 0 /\ last_call'[3] + last_call'[5] <= pixmap.height
       /\ config.fill_style.kind = "SolidColor" /\ config.fill_style.color.a = 255
       /\ config.alpha = 1
       => \A p \in DOMAIN pixmap.px :
            IF InCallRect(p, last_call')
            THEN data(Self')[p] = <<config.fill_style.color.r, config.fill_style.color.g,
                                    config.fill_style.color.b, config.fill_style.color.a>>
            ELSE pixmap'.px[p] = pixmap.px[p]]_vars

\* A pixel after the whole buffer was filled with the paint.
Filled(paint, p) ==
    IF paint.shader.kind = "SolidColor" THEN Pixel(Premultiply(paint.shader.color))
    ELSE Sampled(<<paint.shader.start, paint.shader.end, paint.shader.stops,
                   paint.shader.spread, p>>)

\* C10: clear(brush) fills the whole pixel buffer with the paint resolved
\* from the brush it is given (against the buffer's frame, with alpha 1),
\* whether solid or gradient and whatever the current fill style and global
\* alpha; start() fills the whole buffer with the background colour.
C10_ClearFillsWithBrush ==
    [][/\ Called("clear") =>
            \A p \in DOMAIN pixmap.px :
                pixmap'.px[p] = Filled(paint_from_brush(last_call'[2],
                    Rectangle(0, 0, pixmap.width, pixmap.height), 1), p)
       /\ Called("start") =>
            \A p \in DOMAIN pixmap.px :
                pixmap'.px[p] = Filled(paint_from_brush(SolidColor(background),
                    Rectangle(0, 0, pixmap.width, pixmap.height), 1), p)]_vars

-----------------------------------------------------------------------------
\* Fonts and text.

\* C11: register_font is idempotent and the first registration wins: a call
\* for a family already present, or with a file that does not parse, leaves
\* the registry unchanged; a call with a file that parses, for a family not
\* present, adds that file's font for the family; and no call ever changes
\* or removes the entry of a family.
C11_FirstRegistrationWins ==
    [][/\ \A e \in fonts : e \in fonts'
       /\ \A e \in fonts', d \in fonts' : e.family = d.family => e = d
       /\ Called("register_font") =>
            IF contains_key(fonts, last_call'[2]) \/ ~last_call'[3].valid
            THEN UNCHANGED ctxvars
            ELSE fonts' = fonts \cup
                    {[family |-> last_call'[2],
                      font |-> [face |-> last_call'[3].face,
                                advance |-> last_call'[3].advance]]}
       /\ calls' = calls + 1 /\ last_call'[1] # "register_font" => fonts' = fonts]_vars

\* A family registered with face A was registered again with the file of
\* face B, after a file that does not parse was tried.
C11_Witness ==
    /\ last_call[1] = "register_font"
    /\ last_call[2] = "mono"
    /\ last_call[3].face = "B"
    /\ fonts = {[family |-> "mono", font |-> [face |-> "A", advance |-> 1]]}
    /\ calls = 3

\* C12: while no font is registered for the current font family, fill_text
\* leaves the pixel buffer unchanged and measure_text returns metrics of
\* width 0 and height 0, whatever the text; fill_text of an empty text
\* changes nothing at all.
C12_NoFontNoText ==
    [][/\ Called("fill_text") /\ ~contains_key(fonts, config.font_config.family) =>
            pixmap' = pixmap
       /\ Called("measure_text") /\ ~contains_key(fonts, config.font_config.family) =>
            last_call'[3] = TextMetrics(0, 0)
       /\ Called("fill_text") /\ last_call'[2] = << >> => UNCHANGED ctxvars]_vars

\* fill_text of a text was called under an opaque fill style and a positive
\* font size, with a font registered, but for another family than the
\* current one.
C12_Witness ==
    /\ last_call[1] = "fill_text"
    /\ last_call[2] # << >>
    /\ fonts # {}
    /\ ~contains_key(fonts, config.font_config.family)
    /\ config.font_config.font_size > 0
    /\ fill_paint.shader.color.alpha = 255

\* C13: measure_text changes no state of the context; measure(text, size,
\* family) changes nothing but the current font configuration (family and
\* size): the styles, alpha, line width, path, clip count, state stack, font
\* registry and pixel buffer are unchanged by both.
C13_MeasureTouchesFontOnly ==
    [][/\ Called("measure_text") => UNCHANGED ctxvars
       /\ Called("measure") =>
            /\ config' = [config EXCEPT !.font_config = config'.font_config]
            /\ UNCHANGED <<background, clips_count, fill_paint, fonts, path_builder,
                           path_rect, pixmap, saved_states, stroke_paint, transform,
                           panicked>>]_vars

\* measure() of a text returned its metrics under a registered font and
\* changed the family and size the context holds, under a fill style that
\* the cached fill paint does not hold.
C13_Witness ==
    /\ last_call[1] = "measure"
    /\ last_call[3].width > 0
    /\ config.font_config = FontConfig("mono", 5)
    /\ config.fill_style = SolidColor(Red)
    /\ fill_paint # paint_from_brush(config.fill_style, Rectangle(0, 0, 0, 0), config.alpha)

-----------------------------------------------------------------------------
\* The arc approximator.

\* The angles of the arc just called, after normalization, and its sweep.
Normalized(angle) == IF angle < 0 THEN TAU - (-angle) ELSE angle
ArcStart == Normalized(last_call'[5])
ArcEnd == Normalized(last_call'[6])
ArcSweep == ArcEnd - ArcStart
\* The segments the call just made appended to the path.
Emitted == SubSeq(path_builder', Len(path_builder) + 1, Len(path_builder'))
IsFragment(seg) == seg[1] = "CF"
IsQuadrant(seg) == seg[1] = "CQ"
IsCurve(seg) == IsFragment(seg) \/ IsQuadrant(seg)
IsMove(seg) == seg[1] \in {"M", "MA"}
\* The line back to the centre closes what the arc emitted.
ClosesToCenter ==
    /\ Len(Emitted) > 0
    /\ Emitted[Len(Emitted)] = <<"L", last_call'[2], last_call'[3]>>

\* An arc of radius 0, or of a sweep that is a whole number of turns, spans
\* no angle: its fragment has no positive discriminant.
Degenerate == last_call'[4] = 0 \/ ArcSweep % TAU = 0

\* C14: an arc of sweep below 90 degrees emits exactly one cubic fragment
\* (taken here for the arcs that span an angle); an arc of sweep a full turn
\* or more emits exactly four quadrant cubics, whatever its start angle; and
\* the line back to the centre is emitted if and only if the sweep is less
\* than a full turn.
C14_ArcSegmentCounts ==
    [][Called("arc") =>
        /\ ArcSweep < FRAC_PI_2 /\ ~Degenerate =>
              Len(SelectSeq(Emitted, IsFragment)) = 1
        /\ ArcSweep >= TAU => Len(SelectSeq(Emitted, IsQuadrant)) = 4
        /\ ClosesToCenter <=> ArcSweep < TAU]_vars

\* C15: on a path that has a subpath, an arc of sweep less than a full turn
\* reaches its starting point with a line from the current point of the path
\* and starts no new subpath; an arc of sweep a full turn or more starts a
\* new subpath with a move to its starting point.
C15_ArcJoinsSubpath ==
    [][Called("arc") /\ path_builder # << >> =>
        LET onCircle == <<last_call'[2], last_call'[3], last_call'[4], ArcStart>>
        IN  IF ArcSweep < TAU
            THEN /\ Emitted[1] = <<"LA">> \o onCircle
                 /\ \A i \in 1..Len(Emitted) : ~IsMove(Emitted[i])
            ELSE Emitted[1] = <<"MA">> \o onCircle]_vars

\* The angles at which a curve segment starts and ends.
CurveFrom(seg) == IF IsFragment(seg) THEN seg[5] ELSE (seg[5] - 1) * FRAC_PI_2
CurveTo(seg) == IF IsFragment(seg) THEN seg[6] ELSE seg[5] * FRAC_PI_2
\* Two angles are the same point of the circle.
SamePoint(a, b) == (a - b) % TAU = 0

\* C17: for an arc of positive radius with 0 <= start_angle <= end_angle,
\* the curve segments emitted form a contiguous chain on the circle: the
\* first starts at start_angle, each next one starts at the point where the
\* one before it ended, and the last ends at end_angle (or at start_angle
\* plus a full turn when the sweep is a full turn or more).
C17_ArcChainContiguous ==
    [][Called("arc") /\ last_call'[4] > 0
            /\ 0 <= last_call'[5] /\ last_call'[5] <= last_call'[6] =>
        LET curves == SelectSeq(Emitted, IsCurve)
        IN  Len(curves) > 0 =>
              /\ SamePoint(CurveFrom(curves[1]), ArcStart)
              /\ \A i \in 1..(Len(curves) - 1) :
                    SamePoint(CurveFrom(curves[i + 1]), CurveTo(curves[i]))
              /\ \/ SamePoint(CurveTo(curves[Len(curves)]), ArcEnd)
                 \/ ArcSweep >= TAU
                      /\ SamePoint(CurveTo(curves[Len(curves)]), ArcStart + TAU)]_vars

-----------------------------------------------------------------------------
\* The frame of fill_rect, and the path after fill and stroke.

\* C16: fill_rect(x, y, w, h) with w > 0 and h > 0 resolves the current fill
\* paint against exactly the rectangle (x, y, w, h), whatever path calls or
\* fill_rect calls were made since the path began.
C16_FillRectFrameIsRect ==
    [][Called("fill_rect") /\ last_call'[4] > 0 /\ last_call'[5] > 0 =>
          fill_paint' = paint_from_brush(config.fill_style,
                            Rectangle(last_call'[2], last_call'[3],
                                      last_call'[4], last_call'[5]),
                            config.alpha)]_vars

\* C18: fill() and stroke() leave the path geometry, the bounding tracker,
\* the configuration, the clip count and the state stack exactly as they
\* were, so the path filled can be filled again or stroked.
C18_FillStrokeKeepPath ==
    [][Called("fill") \/ Called("stroke") =>
          UNCHANGED <<path_builder, path_rect, config, clips_count, saved_states>>]_vars

\* A path that rasterizes was filled and then stroked: both paints were
\* resolved against its bound, and the path is still there.
C18_Witness ==
    /\ last_call[1] = "stroke"
    /\ IsSome(pb_finish(path_builder))
    /\ IsSome(get_rect(path_rect))
    /\ fill_paint = paint_from_brush(SolidColor(Red), Unwrap(get_rect(path_rect)), 1)
    /\ stroke_paint = paint_from_brush(config.stroke_style, Unwrap(get_rect(path_rect)),
                                       config.alpha)
    /\ config.fill_style = SolidColor(Red)
    /\ \E p \in DOMAIN pixmap.px : pixmap.px[p] # Pixel(<<0, 0, 0, 0>>)

====
